---- MODULE Spec2Model ----
(***************************************************************************)
(* Geohash (encointer/geohash): encoding of a (latitude, longitude) pair   *)
(* into a fixed-length base-32 hash, decoding of a hash into its cell, and *)
(* the derivation of the eight neighbouring cells.                         *)
(*                                                                         *)
(* The model follows src/src/lib.rs (GeoHash<const LEN>).  src/src/core.rs *)
(* holds the same loops with the length passed as an argument.             *)
(*                                                                         *)
(* I64F64 values are modelled by their raw two's-complement integer: the   *)
(* number x is the integer x * 2^FracBits.  The library type has 64        *)
(* fractional bits; the model keeps FracBits of them, enough for every     *)
(* bisection of a hash of up to MaxLen + 1 symbols to be exact, as it is   *)
(* in the library type for hashes of up to 26 symbols.  Spec draws the     *)
(* lengths up to MaxLen.  SpecLong adds longer hashes: on these the model  *)
(* runs out of fractional bits as the library type does from 27 symbols    *)
(* on, and the encoder's i8 counter of bits passes 127 at 26 symbols.      *)
(***************************************************************************)
EXTENDS Integers, Sequences, FiniteSets, TLC

\* Longest hash the model builds, decodes and steps from.
MaxLen == 2

\* Fractional bits kept of an I64F64.
FracBits == 8

VARIABLES
    pc,         \* "new": no hash built yet; "ready": the caller holds self;
                \* "done": a call has returned
    self,       \* the bytes of the GeoHash the caller holds (pc # "new")
    call,       \* the last call made and its arguments
    ret,        \* what the last call returned
    enc_trace,  \* the states the encoder loop went through during the last call
    dec_trace   \* the states the decoder loop went through during the last call

vars == <<pc, self, call, ret, enc_trace, dec_trace>>

----------------------------------------------------------------------------
(* I64F64 arithmetic on raw integers *)

RECURSIVE Pow2(_)
Pow2(n) == IF n = 0 THEN 1 ELSE 2 * Pow2(n - 1)

\* The raw value of 1.
FixOne == Pow2(FracBits)

\* I64F64::from_num of an integer.
from_num(n) == n * FixOne

\* Integer quotient rounded towards zero.
TruncDiv(a, b) ==
    IF (a >= 0) = (b > 0) THEN (IF a >= 0 THEN a ELSE -a) \div (IF b > 0 THEN b ELSE -b)
    ELSE -((IF a >= 0 THEN a ELSE -a) \div (IF b > 0 THEN b ELSE -b))

\* a / b on I64F64.
FixDiv(a, b) == TruncDiv(a * FixOne, b)

\* a * b on I64F64 (the low FracBits of the product are shifted out).
FixMul(a, b) == (a * b) \div FixOne

\* I64F64::abs.
FixAbs(a) == IF a < 0 THEN -a ELSE a

two == from_num(2)

----------------------------------------------------------------------------
(* Results and errors *)

NoErr == [kind |-> "none", c |-> 0, lon |-> 0, lat |-> 0]

InvalidHashCharacter(c) == [kind |-> "InvalidHashCharacter", c |-> c, lon |-> 0, lat |-> 0]

InvalidLen == [kind |-> "InvalidLen", c |-> 0, lon |-> 0, lat |-> 0]

InvalidCoordinateRange(lon, lat) ==
    [kind |-> "InvalidCoordinateRange", c |-> 0, lon |-> lon, lat |-> lat]

\* A panic is not a GeohashError: the call does not return.
Panic(what) == [kind |-> what, c |-> 0, lon |-> 0, lat |-> 0]

Ok(v) == [ok |-> TRUE, val |-> v, err |-> NoErr]

Err(e) == [ok |-> FALSE, val |-> <<>>, err |-> e]

----------------------------------------------------------------------------
(* The alphabet *)

\* The symbols as ASCII codes: 0-9, b-h, j, k, m, n, p-z.
BASE32_CODES ==
    << 48, 49, 50, 51, 52, 53, 54, 55, 56, 57, 98, 99, 100, 101, 102, 103,
       104, 106, 107, 109, 110, 112, 113, 114, 115, 116, 117, 118, 119, 120,
       121, 122 >>

\* hash_value_of_char with 'j' and 'k' shifted by 88, as 'b'..'h' are.
hash_value_of_char_jk_shifted(c) ==
    IF c \in 48..57 THEN Ok(c - 48)
    ELSE IF c \in 98..104 THEN Ok(c - 88)
    ELSE IF c \in 106..107 THEN Ok(c - 88)
    ELSE IF c \in 109..110 THEN Ok(c - 90)
    ELSE IF c \in 112..122 THEN Ok(c - 91)
    ELSE Err(InvalidHashCharacter(c))

\* hash_value_of_char with the letters taken from 'a'.
hash_value_of_char_from_a(c) ==
    IF c \in 48..57 THEN Ok(c - 48)
    ELSE IF c \in 97..104 THEN Ok(c - 88)
    ELSE IF c \in 106..107 THEN Ok(c - 89)
    ELSE IF c \in 109..110 THEN Ok(c - 90)
    ELSE IF c \in 112..122 THEN Ok(c - 91)
    ELSE Err(InvalidHashCharacter(c))

\* hash_value_of_char: the 5-bit value of a symbol, by ASCII range.
hash_value_of_char(c) ==
    IF c \in 48..57 THEN Ok(c - 48)
    ELSE IF c \in 98..104 THEN Ok(c - 88)
    ELSE IF c \in 106..107 THEN Ok(c - 89)
    ELSE IF c \in 109..110 THEN Ok(c - 90)
    ELSE IF c \in 112..122 THEN Ok(c - 91)
    ELSE Err(InvalidHashCharacter(c))

----------------------------------------------------------------------------
(* Construction from raw symbols *)

\* The loop of try_from: the error of the first symbol, from position k on,
\* that hash_value_of_char rejects, or NoErr.
RECURSIVE CheckChars(_, _)
CheckChars(value, k) ==
    IF k > Len(value) THEN NoErr
    ELSE IF ~hash_value_of_char(value[k]).ok THEN hash_value_of_char(value[k]).err
    ELSE CheckChars(value, k + 1)

\* try_from with the symbols examined before the length.
try_from_symbols_first(value, LEN) ==
    IF CheckChars(value, 1) # NoErr THEN Err(CheckChars(value, 1))
    ELSE IF Len(value) # LEN THEN Err(InvalidLen)
    ELSE Ok(value)

\* TryFrom<&[u8]> for GeoHash<LEN>.
try_from(value, LEN) ==
    IF Len(value) # LEN THEN Err(InvalidLen)
    ELSE IF CheckChars(value, 1) # NoErr THEN Err(CheckChars(value, 1))
    ELSE Ok(value)

----------------------------------------------------------------------------
(* The encoder *)

\* The range test with the upper bound of the latitude left out of the range.
OutOfRange_lat_open(lat, lon) ==
    \/ lon < from_num(-180)
    \/ lon > from_num(180)
    \/ lat < from_num(-90)
    \/ lat >= from_num(90)

\* lon < min_lon || lon > max_lon || lat < min_lat || lat > max_lat
OutOfRange(lat, lon) ==
    \/ lon < from_num(-180)
    \/ lon > from_num(180)
    \/ lat < from_num(-90)
    \/ lat > from_num(90)

\* The remainder of an i8 by 2, with the sign of the dividend.
RemTwo(n) == IF n >= 0 THEN n % 2 ELSE -((-n) % 2)

\* The encoder's locals before the first symbol; i and j count the outer
\* and inner loops.
EncInit(LEN) ==
    [ i |-> 0, j |-> 0,
      out |-> [k \in 1..LEN |-> 0],
      bits_total |-> 0,
      hash_value |-> 0,
      max_lat |-> from_num(90), min_lat |-> from_num(-90),
      max_lon |-> from_num(180), min_lon |-> from_num(-180),
      panic |-> "" ]

\* bits_total += 1 on an i8: past 127 it panics when overflow checks are
\* compiled in and wraps to -128 when they are not.
IncBits(st, overflow_checks) ==
    IF st.bits_total = 127
    THEN IF overflow_checks
         THEN [st EXCEPT !.panic = "overflow"]
         ELSE [st EXCEPT !.bits_total = -128]
    ELSE [st EXCEPT !.bits_total = st.bits_total + 1]

\* EncBit with the latitude compared in the longitude branch.
EncBit_lat_in_lon_branch(st, lat, lon, overflow_checks) ==
    LET mid_lon == FixDiv(st.max_lon + st.min_lon, two)
        mid_lat == FixDiv(st.max_lat + st.min_lat, two)
        bisected ==
            IF RemTwo(st.bits_total) = 0
            THEN IF lat > mid_lon
                 THEN [st EXCEPT !.hash_value = st.hash_value * 2 + 1,
                                 !.min_lon = mid_lon]
                 ELSE [st EXCEPT !.hash_value = st.hash_value * 2,
                                 !.max_lon = mid_lon]
            ELSE IF lat > mid_lat
                 THEN [st EXCEPT !.hash_value = st.hash_value * 2 + 1,
                                 !.min_lat = mid_lat]
                 ELSE [st EXCEPT !.hash_value = st.hash_value * 2,
                                 !.max_lat = mid_lat]
    IN  IncBits([bisected EXCEPT !.j = st.j + 1], overflow_checks)

\* EncBit with the axis chosen by the number of the bit in its symbol.
EncBit_axis_per_symbol(st, lat, lon, overflow_checks) ==
    LET mid_lon == FixDiv(st.max_lon + st.min_lon, two)
        mid_lat == FixDiv(st.max_lat + st.min_lat, two)
        bisected ==
            IF RemTwo(st.j) = 0
            THEN IF lon > mid_lon
                 THEN [st EXCEPT !.hash_value = st.hash_value * 2 + 1,
                                 !.min_lon = mid_lon]
                 ELSE [st EXCEPT !.hash_value = st.hash_value * 2,
                                 !.max_lon = mid_lon]
            ELSE IF lat > mid_lat
                 THEN [st EXCEPT !.hash_value = st.hash_value * 2 + 1,
                                 !.min_lat = mid_lat]
                 ELSE [st EXCEPT !.hash_value = st.hash_value * 2,
                                 !.max_lat = mid_lat]
    IN  IncBits([bisected EXCEPT !.j = st.j + 1], overflow_checks)

\* One pass of the inner loop: one bisection and one bit.
EncBit(st, lat, lon, overflow_checks) ==
    LET mid_lon == FixDiv(st.max_lon + st.min_lon, two)
        mid_lat == FixDiv(st.max_lat + st.min_lat, two)
        bisected ==
            IF RemTwo(st.bits_total) = 0
            THEN IF lon > mid_lon
                 THEN [st EXCEPT !.hash_value = st.hash_value * 2 + 1,
                                 !.min_lon = mid_lon]
                 ELSE [st EXCEPT !.hash_value = st.hash_value * 2,
                                 !.max_lon = mid_lon]
            ELSE IF lat > mid_lat
                 THEN [st EXCEPT !.hash_value = st.hash_value * 2 + 1,
                                 !.min_lat = mid_lat]
                 ELSE [st EXCEPT !.hash_value = st.hash_value * 2,
                                 !.max_lat = mid_lat]
    IN  IncBits([bisected EXCEPT !.j = st.j + 1], overflow_checks)

\* EncEmit without `hash_value = 0`.
EncEmit_accumulator_kept(st) ==
    IF st.hash_value >= Len(BASE32_CODES)
    THEN [st EXCEPT !.panic = "index"]
    ELSE [st EXCEPT !.out = [k \in DOMAIN st.out |->
                                IF k = st.i + 1
                                THEN BASE32_CODES[st.hash_value + 1]
                                ELSE st.out[k]],
                    !.i = st.i + 1,
                    !.j = 0]

\* The end of the outer loop's body: the accumulated value indexes the
\* table (out of its bounds the index panics), the symbol is stored and
\* the accumulator is cleared.
EncEmit(st) ==
    IF st.hash_value >= Len(BASE32_CODES)
    THEN [st EXCEPT !.panic = "index"]
    ELSE [st EXCEPT !.out = [k \in DOMAIN st.out |->
                                IF k = st.i + 1
                                THEN BASE32_CODES[st.hash_value + 1]
                                ELSE st.out[k]],
                    !.hash_value = 0,
                    !.i = st.i + 1,
                    !.j = 0]

\* The body of the encoder's outer loop, `for _ in 0..5` and the symbol
\* after it: tr is the sequence of states so far.
RECURSIVE EncSymbol(_, _, _, _)
EncSymbol(tr, lat, lon, overflow_checks) ==
    IF tr[Len(tr)].panic # "" THEN tr
    ELSE IF tr[Len(tr)].j < 5
    THEN EncSymbol(Append(tr, EncBit(tr[Len(tr)], lat, lon, overflow_checks)),
                   lat, lon, overflow_checks)
    ELSE Append(tr, EncEmit(tr[Len(tr)]))

\* The encoder's outer loop, `for i in 0..out.len()`.
RECURSIVE EncLoop(_, _, _, _, _)
EncLoop(tr, lat, lon, LEN, overflow_checks) ==
    IF tr[Len(tr)].panic # "" \/ tr[Len(tr)].i >= LEN THEN tr
    ELSE EncLoop(EncSymbol(tr, lat, lon, overflow_checks),
                 lat, lon, LEN, overflow_checks)

\* What the encoder returns after the states tr: Ok(GeoHash(out)), unless a
\* panic ended the loops.
EncReturn(tr) ==
    [ret |-> IF tr[Len(tr)].panic # "" THEN Err(Panic(tr[Len(tr)].panic))
             ELSE Ok(tr[Len(tr)].out),
     trace |-> tr]

\* GeoHash::<LEN>::try_from_params, with the states its loops went through.
RunEncode(lat, lon, LEN, overflow_checks) ==
    IF OutOfRange(lat, lon)
    THEN [ret |-> Err(InvalidCoordinateRange(lon, lat)), trace |-> <<>>]
    ELSE EncReturn(EncLoop(<<EncInit(LEN)>>, lat, lon, LEN, overflow_checks))

try_from_params(lat, lon, LEN, overflow_checks) ==
    RunEncode(lat, lon, LEN, overflow_checks).ret

----------------------------------------------------------------------------
(* The decoder *)

\* The decoder's locals before the first symbol.
DecInit ==
    [ is_lon |-> TRUE,
      max_lat |-> from_num(90), min_lat |-> from_num(-90),
      max_lon |-> from_num(180), min_lon |-> from_num(-180) ]

\* (hash_value >> (4 - bs)) & 1
BitOf(hash_value, bs) == (hash_value \div Pow2(4 - bs)) % 2

\* DecBit with the midpoint taken of the difference of the bounds.
DecBit_mid_of_difference(st, bit) ==
    LET mid_lon == FixDiv(st.max_lon - st.min_lon, two)
        mid_lat == FixDiv(st.max_lat - st.min_lat, two)
        bisected ==
            IF st.is_lon
            THEN IF bit = 1 THEN [st EXCEPT !.min_lon = mid_lon]
                            ELSE [st EXCEPT !.max_lon = mid_lon]
            ELSE IF bit = 1 THEN [st EXCEPT !.min_lat = mid_lat]
                            ELSE [st EXCEPT !.max_lat = mid_lat]
    IN  [bisected EXCEPT !.is_lon = ~st.is_lon]

\* One pass of the inner loop: one bit and one bisection.
DecBit(st, bit) ==
    LET mid_lon == FixDiv(st.max_lon + st.min_lon, two)
        mid_lat == FixDiv(st.max_lat + st.min_lat, two)
        bisected ==
            IF st.is_lon
            THEN IF bit = 1 THEN [st EXCEPT !.min_lon = mid_lon]
                            ELSE [st EXCEPT !.max_lon = mid_lon]
            ELSE IF bit = 1 THEN [st EXCEPT !.min_lat = mid_lat]
                            ELSE [st EXCEPT !.max_lat = mid_lat]
    IN  [bisected EXCEPT !.is_lon = ~st.is_lon]

\* The decoder's locals as its loops go: k symbols and bs bits of the next
\* one have been read; err is the error that ended the loops, if any.
DecStart ==
    [ k |-> 0, bs |-> 0, err |-> NoErr,
      is_lon |-> DecInit.is_lon,
      max_lat |-> DecInit.max_lat, min_lat |-> DecInit.min_lat,
      max_lon |-> DecInit.max_lon, min_lon |-> DecInit.min_lon ]

\* The end of the inner loop: the outer loop goes to the next symbol.
DecNext(st) == [st EXCEPT !.k = st.k + 1, !.bs = 0]

\* One step of decode_bbox on the symbol c = hash[k + 1], whose lookup
\* returned hv: the `?` returns its error, and otherwise bit bs is read.
DecStep(st, hv) ==
    IF ~hv.ok THEN [st EXCEPT !.err = hv.err]
    ELSE [DecBit(st, BitOf(hv.val, st.bs)) EXCEPT !.bs = st.bs + 1]

\* The body of the decoder's outer loop on the symbol c, the lookup and
\* `for bs in 0..5`: tr is the sequence of states so far.
RECURSIVE DecSymbolSteps(_, _)
DecSymbolSteps(tr, c) ==
    IF tr[Len(tr)].err # NoErr THEN tr
    ELSE IF tr[Len(tr)].bs < 5
    THEN DecSymbolSteps(Append(tr, DecStep(tr[Len(tr)], hash_value_of_char(c))), c)
    ELSE Append(tr, DecNext(tr[Len(tr)]))

\* The decoder's outer loop, `for c in self.iter()`.
RECURSIVE DecSteps(_, _)
DecSteps(tr, hash) ==
    IF tr[Len(tr)].err # NoErr \/ tr[Len(tr)].k >= Len(hash) THEN tr
    ELSE DecSteps(DecSymbolSteps(tr, hash[tr[Len(tr)].k + 1]), hash)

\* The states decode_bbox goes through on hash.
DecTrace(hash) == DecSteps(<<DecStart>>, hash)

\* What the loops leave after the states tr: the locals, or the error of
\* the symbol that ended them.
DecLoop(tr) ==
    IF tr[Len(tr)].err # NoErr THEN Err(tr[Len(tr)].err) ELSE Ok(tr[Len(tr)])

\* What decode_bbox returns after its loops returned r: the Rectangle, or
\* the error of the symbol that ended them.
DecReturn(r) ==
    IF ~r.ok THEN r
    ELSE Ok([ min |-> [lon |-> r.val.min_lon, lat |-> r.val.min_lat],
              max |-> [lon |-> r.val.max_lon, lat |-> r.val.max_lat] ])

\* GeoHash::decode_bbox: the Rectangle of the hash.
decode_bbox(hash) == DecReturn(DecLoop(DecTrace(hash)))

\* CentreAndError with the errors not divided by two.
CentreAndError_full_width(c0, c1) ==
    << FixDiv(c0.lon + c1.lon, two),
       FixDiv(c0.lat + c1.lat, two),
       c1.lon - c0.lon,
       c1.lat - c0.lat >>

\* The tuple try_as_coordinates makes of the Rectangle c0..c1: (longitude,
\* latitude, longitude error, latitude error).
CentreAndError(c0, c1) ==
    << FixDiv(c0.lon + c1.lon, two),
       FixDiv(c0.lat + c1.lat, two),
       FixDiv(c1.lon - c0.lon, two),
       FixDiv(c1.lat - c0.lat, two) >>

\* try_as_coordinates on what decode_bbox returned.
CoordinatesOf(rect) ==
    IF ~rect.ok THEN rect ELSE Ok(CentreAndError(rect.val.min, rect.val.max))

\* GeoHash::try_as_coordinates.
try_as_coordinates(hash) == CoordinatesOf(decode_bbox(hash))

----------------------------------------------------------------------------
(* Neighbours *)

Directions == {"N", "NE", "E", "SE", "S", "SW", "W", "NW"}

\* to_tuple with S stepping as N does.
to_tuple_south_as_north(direction) ==
    LET minus_one == from_num(-1)
        zero == from_num(0)
        one == from_num(1)
    IN  CASE direction = "SW" -> <<minus_one, minus_one>>
          [] direction = "S"  -> <<one, zero>>
          [] direction = "SE" -> <<minus_one, one>>
          [] direction = "W"  -> <<zero, minus_one>>
          [] direction = "E"  -> <<zero, one>>
          [] direction = "NW" -> <<one, minus_one>>
          [] direction = "N"  -> <<one, zero>>
          [] direction = "NE" -> <<one, one>>

\* Direction::to_tuple: (dlat, dlng).
to_tuple(direction) ==
    LET minus_one == from_num(-1)
        zero == from_num(0)
        one == from_num(1)
    IN  CASE direction = "SW" -> <<minus_one, minus_one>>
          [] direction = "S"  -> <<minus_one, zero>>
          [] direction = "SE" -> <<minus_one, one>>
          [] direction = "W"  -> <<zero, minus_one>>
          [] direction = "E"  -> <<zero, one>>
          [] direction = "NW" -> <<one, minus_one>>
          [] direction = "N"  -> <<one, zero>>
          [] direction = "NE" -> <<one, one>>

\* neighbor_lon wrapped around the antimeridian.
neighbor_lon_wrapped(coords, dlng) ==
    LET shifted == coords[1] + FixMul(FixMul(two, FixAbs(coords[3])), dlng)
    IN  IF shifted > from_num(180) THEN shifted - from_num(360)
        ELSE IF shifted < from_num(-180) THEN shifted + from_num(360)
        ELSE shifted

\* lon + two * lon_err.abs() * dlng
neighbor_lon(coords, dlng) ==
    coords[1] + FixMul(FixMul(two, FixAbs(coords[3])), dlng)

\* neighbor_lat stepping by the longitude error.
neighbor_lat_by_lon_err(coords, dlat) ==
    coords[2] + FixMul(FixMul(two, FixAbs(coords[3])), dlat)

\* lat + two * lat_err.abs() * dlat
neighbor_lat(coords, dlat) ==
    coords[2] + FixMul(FixMul(two, FixAbs(coords[4])), dlat)

\* GeoHash::neighbor after try_as_coordinates returned decoded: its error is
\* passed on, and otherwise the shifted coordinate is encoded.
NeighborOf(decoded, step, LEN, overflow_checks) ==
    IF ~decoded.ok THEN [ret |-> decoded, trace |-> <<>>]
    ELSE RunEncode(neighbor_lat(decoded.val, step[1]),
                   neighbor_lon(decoded.val, step[2]),
                   LEN, overflow_checks)

\* GeoHash::neighbor, with the states of its encoder loop.
RunNeighbor(hash, direction, overflow_checks) ==
    NeighborOf(try_as_coordinates(hash), to_tuple(direction), Len(hash),
               overflow_checks)

neighbor(hash, direction, overflow_checks) ==
    RunNeighbor(hash, direction, overflow_checks).ret

\* The order in which GeoHash::neighbors evaluates the fields of Neighbors.
NeighborsOrder == <<"SW", "S", "SE", "W", "E", "NW", "N", "NE">>

\* The encoder states of the first k runs of rs, one after the other.
RECURSIVE TracesUpTo(_, _)
TracesUpTo(rs, k) ==
    IF k = 0 THEN <<>> ELSE TracesUpTo(rs, k - 1) \o rs[k].trace

\* The position in rs of the first run that returned an error, or 0.
RECURSIVE FirstError(_, _)
FirstError(rs, k) ==
    IF k > Len(rs) THEN 0
    ELSE IF ~rs[k].ret.ok THEN k
    ELSE FirstError(rs, k + 1)

\* NeighborsOf with the fields n and s exchanged.
NeighborsOf_n_s_exchanged(rs, first) ==
    IF first # 0
    THEN [ret |-> rs[first].ret, trace |-> TracesUpTo(rs, first)]
    ELSE [ret |-> Ok([ sw |-> rs[1].ret.val, s |-> rs[7].ret.val,
                       se |-> rs[3].ret.val, w |-> rs[4].ret.val,
                       e |-> rs[5].ret.val, nw |-> rs[6].ret.val,
                       n |-> rs[2].ret.val, ne |-> rs[8].ret.val ]),
          trace |-> TracesUpTo(rs, Len(rs))]

\* The Neighbors built from the runs rs of GeoHash::neighbor, taken in the
\* order of evaluation: the first error ends the evaluation and is returned.
NeighborsOf(rs, first) ==
    IF first # 0
    THEN [ret |-> rs[first].ret, trace |-> TracesUpTo(rs, first)]
    ELSE [ret |-> Ok([ sw |-> rs[1].ret.val, s |-> rs[2].ret.val,
                       se |-> rs[3].ret.val, w |-> rs[4].ret.val,
                       e |-> rs[5].ret.val, nw |-> rs[6].ret.val,
                       n |-> rs[7].ret.val, ne |-> rs[8].ret.val ]),
          trace |-> TracesUpTo(rs, Len(rs))]

\* The runs of GeoHash::neighbor in the order of evaluation.
NeighborRuns(hash, overflow_checks) ==
    [k \in 1..Len(NeighborsOrder) |->
        RunNeighbor(hash, NeighborsOrder[k], overflow_checks)]

\* The same, as NeighborsOf reads them.
WithFirstError(rs) == NeighborsOf(rs, FirstError(rs, 1))

\* GeoHash::neighbors, with the states of its encoder loops.
RunNeighbors(hash, overflow_checks) ==
    WithFirstError(NeighborRuns(hash, overflow_checks))

neighbors(hash, overflow_checks) == RunNeighbors(hash, overflow_checks).ret

\* n times the states tr, one after the other.
RECURSIVE Repeated(_, _)
Repeated(tr, n) == IF n = 0 THEN <<>> ELSE Repeated(tr, n - 1) \o tr

\* How many of the runs rs GeoHash::neighbors evaluates: up to the first
\* error, or all of them.
Evaluated(rs, first) == IF first # 0 THEN first ELSE Len(rs)

\* The decoder states of GeoHash::neighbors: every run of GeoHash::neighbor
\* it evaluates decodes the hash again.
NeighborsDecTrace(hash, rs) ==
    Repeated(DecTrace(hash), Evaluated(rs, FirstError(rs, 1)))

----------------------------------------------------------------------------
(* The inputs the callers draw from *)

\* The 32 symbols of the table.
Alphabet == {BASE32_CODES[k] : k \in 1..Len(BASE32_CODES)}

\* Bytes next to the ranges of hash_value_of_char and in their gaps:
\* '/', ':', 'a', 'i', 'l', 'o', '{'.
OtherBytes == {47, 58, 97, 105, 108, 111, 123}

Bytes == Alphabet \cup OtherBytes

\* The first and last symbol of each range of hash_value_of_char
\* ('0', '9', 'b', 'h', 'j', 'k', 'm', 'n', 'p', 'z'), and the other bytes.
SampleBytes == {48, 57, 98, 104, 106, 107, 109, 110, 112, 122} \cup OtherBytes

Lens == 0..MaxLen

\* Every string of at most one byte, and every string of up to MaxLen of
\* the sample bytes.
RawInputs ==
    UNION {[1..n -> Bytes] : n \in 0..1}
        \cup UNION {[1..n -> SampleBytes] : n \in Lens}

\* The raw values next to x.
Around(x) == {x - 1, x, x + 1}

\* Longitudes every 11.25 degrees from -191.25 to 191.25 (the cell bounds
\* of a two-symbol hash, and past the range on both sides), and the values
\* one unit in the last place from -180, 0 and 180.
LonInputs ==
    {k * (from_num(45) \div 4) : k \in -17..17}
        \cup Around(from_num(-180)) \cup Around(0) \cup Around(from_num(180))

\* Latitudes every 5.625 degrees from -95.625 to 95.625, and the values
\* one unit in the last place from -90, 0 and 90.
LatInputs ==
    {k * (from_num(45) \div 8) : k \in -17..17}
        \cup Around(from_num(-90)) \cup Around(0) \cup Around(from_num(90))

\* Whether overflow checks are compiled in.  The two settings give the same
\* run unless the counter of bits passes 127, so that only then are both drawn.
OverflowChecks(LEN) == IF 5 * LEN > 127 THEN BOOLEAN ELSE {TRUE}

NoCall == [op |-> "none", raw |-> <<>>, LEN |-> 0, lat |-> 0, lon |-> 0, direction |-> ""]

----------------------------------------------------------------------------
(* The state machine: a caller builds one hash and calls one method on it *)

Init ==
    /\ pc = "new"
    /\ self = <<>>
    /\ call = NoCall
    /\ ret = Ok(<<>>)
    /\ enc_trace = <<>>
    /\ dec_trace = <<>>

\* A method returned r.ret after the encoder states r.trace.
Returned(r) ==
    /\ ret' = r.ret
    /\ enc_trace' = r.trace

\* A constructor returned r.ret: the caller holds the hash if there is one.
Built(r) ==
    /\ Returned(r)
    /\ pc' = IF r.ret.ok THEN "ready" ELSE "done"
    /\ self' = r.ret.val
    /\ dec_trace' = <<>>

\* GeoHash(raw): the tuple struct built from its public field, unchecked.
Construct(raw) ==
    /\ pc = "new"
    /\ pc' = "ready"
    /\ self' = raw
    /\ call' = [NoCall EXCEPT !.op = "GeoHash", !.raw = raw, !.LEN = Len(raw)]
    /\ ret' = Ok(raw)
    /\ enc_trace' = <<>>
    /\ dec_trace' = <<>>

\* GeoHash::<LEN>::try_from(raw)
TryFrom(raw, LEN) ==
    /\ pc = "new"
    /\ Built([ret |-> try_from(raw, LEN), trace |-> <<>>])
    /\ call' = [NoCall EXCEPT !.op = "try_from", !.raw = raw, !.LEN = LEN]

\* GeoHash::<LEN>::try_from_params(lat, lon)
TryFromParams(lat, lon, LEN) ==
    /\ pc = "new"
    /\ \E overflow_checks \in OverflowChecks(LEN) :
         Built(RunEncode(lat, lon, LEN, overflow_checks))
    /\ call' = [NoCall EXCEPT !.op = "try_from_params",
                              !.lat = lat, !.lon = lon, !.LEN = LEN]

\* self.try_as_coordinates()
TryAsCoordinates ==
    /\ pc = "ready"
    /\ pc' = "done"
    /\ ret' = try_as_coordinates(self)
    /\ call' = [NoCall EXCEPT !.op = "try_as_coordinates", !.LEN = Len(self)]
    /\ enc_trace' = <<>>
    /\ dec_trace' = DecTrace(self)
    /\ UNCHANGED self

\* self.neighbor(direction)
Neighbor(direction) ==
    /\ pc = "ready"
    /\ pc' = "done"
    /\ \E overflow_checks \in OverflowChecks(Len(self)) :
         Returned(RunNeighbor(self, direction, overflow_checks))
    /\ dec_trace' = DecTrace(self)
    /\ call' = [NoCall EXCEPT !.op = "neighbor", !.direction = direction,
                              !.LEN = Len(self)]
    /\ UNCHANGED self

\* self.neighbors()
NeighborsCall ==
    /\ pc = "ready"
    /\ pc' = "done"
    /\ \E overflow_checks \in OverflowChecks(Len(self)) :
         /\ Returned(RunNeighbors(self, overflow_checks))
         /\ dec_trace' = NeighborsDecTrace(self, NeighborRuns(self, overflow_checks))
    /\ call' = [NoCall EXCEPT !.op = "neighbors", !.LEN = Len(self)]
    /\ UNCHANGED self

Next ==
    \/ pc = "new" /\ \E raw \in RawInputs : Construct(raw)
    \/ pc = "new" /\ \E raw \in RawInputs, LEN \in Lens : TryFrom(raw, LEN)
    \/ pc = "new" /\ \E lat \in LatInputs, lon \in LonInputs, LEN \in Lens :
                        TryFromParams(lat, lon, LEN)
    \/ TryAsCoordinates
    \/ \E direction \in Directions : Neighbor(direction)
    \/ NeighborsCall

Spec == Init /\ [][Next]_vars

----------------------------------------------------------------------------
(* Long hashes: LEN is a const generic and no length is refused *)

\* i8::MAX, the largest value of bits_total.
I8_MAX == 127

\* The first length whose 5 * LEN bits do not fit the counter.
LongLen == I8_MAX \div 5 + 1

\* The lengths of Lens, a length past them, and the lengths on both sides
\* of the counter's range.
LongLens == Lens \cup {MaxLen + 2, LongLen - 1, LongLen}

\* The strings of one sample byte repeated, of the lengths past Lens.
LongRawInputs ==
    {[k \in 1..n |-> c] : n \in LongLens \ Lens, c \in SampleBytes}

\* The bounds and the middle of each range, a value one unit in the last
\* place from the middle, and a value inside each half.
LongLonInputs ==
    {from_num(-180), from_num(-45), -1, 0, from_num(135), from_num(180)}

LongLatInputs ==
    {from_num(-90), from_num(-45), 0, 1, from_num(30), from_num(90)}

\* The callers of Next, and callers that build hashes of the long lengths.
NextLong ==
    \/ Next
    \/ pc = "new" /\ \E raw \in LongRawInputs : Construct(raw)
    \/ pc = "new" /\ \E raw \in LongRawInputs, LEN \in LongLens \ Lens :
                        TryFrom(raw, LEN)
    \/ pc = "new" /\ \E lat \in LongLatInputs, lon \in LongLonInputs,
                          LEN \in LongLens \ Lens :
                        TryFromParams(lat, lon, LEN)

SpecLong == Init /\ [][NextLong]_vars

----------------------------------------------------------------------------
(* The vocabulary of the properties *)

\* Every symbol of h is one of the 32 symbols.
AllInAlphabet(h) == \A k \in DOMAIN h : h[k] \in Alphabet

\* The first symbol of h, in sequence order, that is none of the 32 symbols.
FirstOutside(h) ==
    h[CHOOSE k \in DOMAIN h :
        /\ h[k] \notin Alphabet
        /\ \A m \in DOMAIN h : h[m] \notin Alphabet => k <= m]

\* lat in [-90, 90] and lon in [-180, 180], bounds included.
InsideGlobe(lat, lon) ==
    /\ from_num(-180) <= lon /\ lon <= from_num(180)
    /\ from_num(-90) <= lat /\ lat <= from_num(90)

\* The unit step (dlat, dlon) of a direction.
UnitStep(d) ==
    CASE d = "N"  -> [dlat |-> 1,  dlon |-> 0]
      [] d = "NE" -> [dlat |-> 1,  dlon |-> 1]
      [] d = "E"  -> [dlat |-> 0,  dlon |-> 1]
      [] d = "SE" -> [dlat |-> -1, dlon |-> 1]
      [] d = "S"  -> [dlat |-> -1, dlon |-> 0]
      [] d = "SW" -> [dlat |-> -1, dlon |-> -1]
      [] d = "W"  -> [dlat |-> 0,  dlon |-> -1]
      [] d = "NW" -> [dlat |-> 1,  dlon |-> -1]

\* The centre of the cell one step in direction d from the cell decoded as
\* coords = (lon, lat, lon_error, lat_error).
Shifted(coords, d) ==
    [lon |-> coords[1] + 2 * coords[3] * UnitStep(d).dlon,
     lat |-> coords[2] + 2 * coords[4] * UnitStep(d).dlat]

\* h has n symbols, each one of the 32.
WellFormed(h, n) == Len(h) = n /\ AllInAlphabet(h)

----------------------------------------------------------------------------
(* The properties *)

C3_RangeRejection ==
    call.op = "try_from_params" =>
        IF \/ call.lon < from_num(-180) \/ call.lon > from_num(180)
           \/ call.lat < from_num(-90) \/ call.lat > from_num(90)
        THEN ret = Err(InvalidCoordinateRange(call.lon, call.lat))
        ELSE ret.ok /\ ret.err = NoErr /\ Len(ret.val) = call.LEN

\* A longitude of 191.25 with a latitude inside the range was rejected.
C3_Witness ==
    /\ call.op = "try_from_params"
    /\ call.lon = 17 * (from_num(45) \div 4)
    /\ call.lat = from_num(90)
    /\ ret = Err(InvalidCoordinateRange(call.lon, call.lat))

\* C4 (decode validates by itself): try_as_coordinates on any hash value,
\* one built from raw bytes without try_from included, returns
\* InvalidHashCharacter(c) exactly when some symbol is none of the 32,
\* c being the first such symbol, and no such error otherwise.
C4_DecodeValidates ==
    call.op = "try_as_coordinates" =>
        IF AllInAlphabet(self)
        THEN ret.ok /\ ret.err = NoErr
        ELSE ret = Err(InvalidHashCharacter(FirstOutside(self)))

\* An unchecked hash "ia" was decoded and 'i' was reported.
C4_Witness ==
    /\ call.op = "try_as_coordinates"
    /\ Len(self) = 2
    /\ self[1] = 105 /\ self[2] = 97
    /\ ret = Err(InvalidHashCharacter(105))

\* C5 (construction validation): try_from succeeds exactly when raw has LEN
\* symbols, all of the alphabet, and the hash then holds raw; a length
\* other than LEN gives InvalidLen whatever the symbols are, and otherwise
\* the first symbol outside the alphabet gives InvalidHashCharacter.
C5_ConstructionValidates ==
    call.op = "try_from" =>
        IF Len(call.raw) # call.LEN THEN ret = Err(InvalidLen)
        ELSE IF ~AllInAlphabet(call.raw)
        THEN ret = Err(InvalidHashCharacter(FirstOutside(call.raw)))
        ELSE ret = Ok(call.raw) /\ pc = "ready" /\ self = call.raw

\* An input of the wrong length that holds a bad symbol gave InvalidLen.
C5_Witness ==
    /\ call.op = "try_from"
    /\ Len(call.raw) # call.LEN
    /\ ~AllInAlphabet(call.raw)
    /\ ret = Err(InvalidLen)

\* The directions in the order neighbors is said to evaluate them.
EvaluationOrder == <<"SW", "S", "SE", "W", "E", "NW", "N", "NE">>

\* The first direction, in that order, for which neighbor(h, d) fails.
FirstFailing(h, overflow_checks) ==
    EvaluationOrder[CHOOSE k \in DOMAIN EvaluationOrder :
        /\ ~neighbor(h, EvaluationOrder[k], overflow_checks).ok
        /\ \A m \in DOMAIN EvaluationOrder :
             ~neighbor(h, EvaluationOrder[m], overflow_checks).ok => k <= m]

\* The point is outside [-180, 180] x [-90, 90].
OutsideGlobe(p) == ~InsideGlobe(p.lat, p.lon)

\* The cell decoded as coords touches the bound of the globe that a step in
\* direction d crosses.
StepsAcross(coords, d) ==
    \/ UnitStep(d).dlon = 1 /\ coords[1] + coords[3] = from_num(180)
    \/ UnitStep(d).dlon = -1 /\ coords[1] - coords[3] = from_num(-180)
    \/ UnitStep(d).dlat = 1 /\ coords[2] + coords[4] = from_num(90)
    \/ UnitStep(d).dlat = -1 /\ coords[2] - coords[4] = from_num(-90)

C8_NeighborsAllOrNothing ==
    call.op = "neighbors" =>
        \A overflow_checks \in OverflowChecks(Len(self)) :
            IF \A d \in Directions : neighbor(self, d, overflow_checks).ok
            THEN /\ ret.ok
                 /\ ret.val.n = neighbor(self, "N", overflow_checks).val
                 /\ ret.val.ne = neighbor(self, "NE", overflow_checks).val
                 /\ ret.val.e = neighbor(self, "E", overflow_checks).val
                 /\ ret.val.se = neighbor(self, "SE", overflow_checks).val
                 /\ ret.val.s = neighbor(self, "S", overflow_checks).val
                 /\ ret.val.sw = neighbor(self, "SW", overflow_checks).val
                 /\ ret.val.w = neighbor(self, "W", overflow_checks).val
                 /\ ret.val.nw = neighbor(self, "NW", overflow_checks).val
            ELSE /\ ~ret.ok
                 /\ ret = neighbor(self, FirstFailing(self, overflow_checks),
                                   overflow_checks)

\* The eight neighbours of a hash of the longest length were returned.
C8_Witness ==
    /\ call.op = "neighbors"
    /\ Len(self) = MaxLen
    /\ ret.ok
    /\ ret.val.n # ret.val.s

C10_WellFormedOutputs ==
    /\ (call.op = "try_from_params" /\ ret.ok) => WellFormed(ret.val, call.LEN)
    /\ (call.op = "neighbor" /\ ret.ok) => WellFormed(ret.val, Len(self))
    /\ (call.op = "neighbors" /\ ret.ok) =>
           /\ WellFormed(ret.val.n, Len(self))
           /\ WellFormed(ret.val.ne, Len(self))
           /\ WellFormed(ret.val.e, Len(self))
           /\ WellFormed(ret.val.se, Len(self))
           /\ WellFormed(ret.val.s, Len(self))
           /\ WellFormed(ret.val.sw, Len(self))
           /\ WellFormed(ret.val.w, Len(self))
           /\ WellFormed(ret.val.nw, Len(self))
    /\ \A k \in DOMAIN enc_trace :
           enc_trace[k].j = 5 => enc_trace[k].hash_value \in 0..31
    /\ ret.err.kind # "index"

\* neighbors returned eight hashes of the longest length after its encoder
\* had emitted their symbols.
C10_Witness ==
    /\ call.op = "neighbors"
    /\ Len(self) = MaxLen
    /\ ret.ok
    /\ \E k \in DOMAIN enc_trace :
           enc_trace[k].j = 5 /\ enc_trace[k].i = MaxLen - 1

\* The number of longitude bits, ceil(5L/2), of a hash of L symbols.
LonBits(L) == (5 * L + 1) \div 2

\* The number of latitude bits, floor(5L/2), of a hash of L symbols.
LatBits(L) == (5 * L) \div 2

\* x / 2^k for a raw x >= 0, when that number is an I64F64, and -1, the
\* raw value of no margin, when it is not.
RECURSIVE Halved(_, _)
Halved(x, k) ==
    IF k = 0 THEN x
    ELSE IF x % 2 # 0 THEN -1
    ELSE Halved(x \div 2, k - 1)

\* 180 / 2^ceil(5L/2) and 90 / 2^floor(5L/2) are both I64F64 values.  With
\* the 64 fractional bits of the library type that is L <= 26.
Resolved(L) ==
    /\ Halved(from_num(180), LonBits(L)) # -1
    /\ Halved(from_num(90), LatBits(L)) # -1

\* C11 as stated (error margins, every length): for every valid hash of
\* length L, try_as_coordinates returns lon_error = 180 / 2^ceil(5L/2) and
\* lat_error = 90 / 2^floor(5L/2), and both margins are strictly smaller
\* for the hash extended by any symbol.
C11_ExactMarginsEveryLength ==
    (call.op = "try_as_coordinates" /\ AllInAlphabet(self)) =>
        /\ ret.ok
        /\ ret.val[3] = Halved(from_num(180), LonBits(Len(self)))
        /\ ret.val[4] = Halved(from_num(90), LatBits(Len(self)))
        /\ \A c \in Alphabet :
               /\ try_as_coordinates(Append(self, c)).val[3] < ret.val[3]
               /\ try_as_coordinates(Append(self, c)).val[4] < ret.val[4]

\* C11 (error margins, amended): for every valid hash of a length L that
\* the fixed-point type resolves (180 / 2^ceil(5L/2) and 90 / 2^floor(5L/2)
\* are values of the type), try_as_coordinates returns exactly these two
\* margins whatever the symbols are; and when L + 1 is such a length too,
\* both margins of the hash extended by any symbol are strictly smaller.
C11_ExactMargins ==
    (call.op = "try_as_coordinates" /\ AllInAlphabet(self)
         /\ Resolved(Len(self))) =>
        /\ ret.ok
        /\ ret.val[3] = Halved(from_num(180), LonBits(Len(self)))
        /\ ret.val[4] = Halved(from_num(90), LatBits(Len(self)))
        /\ Resolved(Len(self) + 1) =>
               \A c \in Alphabet :
                   /\ try_as_coordinates(Append(self, c)).val[3] < ret.val[3]
                   /\ try_as_coordinates(Append(self, c)).val[4] < ret.val[4]

\* A hash of the longest length of Lens, "9z", was decoded, and the type
\* resolves that length and the next.
C11_Witness ==
    /\ call.op = "try_as_coordinates"
    /\ Len(self) = MaxLen
    /\ self[1] = 57 /\ self[Len(self)] = 122
    /\ AllInAlphabet(self)
    /\ Resolved(MaxLen + 1)
    /\ ret.ok
    /\ ret.val[3] < from_num(180)

\* C14 as stated (bit counter in range): in every state of the encoder's
\* loops, in try_from_params, neighbor and neighbors alike, bits_total is
\* the number of bits emitted so far, 5 * i + j, and lies in -128..127; no
\* increment overflows, at any length.
C14_BitCounterInRange ==
    /\ \A k \in DOMAIN enc_trace :
           /\ enc_trace[k].panic # "overflow"
           /\ enc_trace[k].bits_total = 5 * enc_trace[k].i + enc_trace[k].j
           /\ enc_trace[k].bits_total \in -128..I8_MAX
    /\ ret.err.kind # "overflow"

\* (lo + hi) / 2, as I64F64 divides.
Mid(lo, hi) == FixDiv(lo + hi, two)

\* From the locals a to the locals b one bound of the longitude went to
\* the midpoint of a's longitude range and the other three bounds stayed.
LonBisected(a, b) ==
    /\ b.min_lat = a.min_lat /\ b.max_lat = a.max_lat
    /\ \/ b.min_lon = Mid(a.min_lon, a.max_lon) /\ b.max_lon = a.max_lon
       \/ b.max_lon = Mid(a.min_lon, a.max_lon) /\ b.min_lon = a.min_lon

\* The same for the latitude.
LatBisected(a, b) ==
    /\ b.min_lon = a.min_lon /\ b.max_lon = a.max_lon
    /\ \/ b.min_lat = Mid(a.min_lat, a.max_lat) /\ b.max_lat = a.max_lat
       \/ b.max_lat = Mid(a.min_lat, a.max_lat) /\ b.min_lat = a.min_lat

\* Bit number n of the whole hash took the locals from a to b.
AxisOfBit(n, a, b) == IF n % 2 = 0 THEN LonBisected(a, b) ELSE LatBisected(a, b)

\* Records m and m + 1 of the encoder's states are the two ends of one pass
\* of its inner loop.
EncBitStep(tr, m) ==
    /\ m + 1 \in DOMAIN tr
    /\ tr[m + 1].i = tr[m].i
    /\ tr[m + 1].j = tr[m].j + 1

\* The same for the decoder's states.
DecBitStep(tr, m) ==
    /\ m + 1 \in DOMAIN tr
    /\ tr[m + 1].k = tr[m].k
    /\ tr[m + 1].bs = tr[m].bs + 1

\* C12 (global axis alternation): in the encoder and in the decoder, bit j
\* of symbol k, bit number 5 * k + j of the whole hash counted from 0,
\* bisects the longitude range when that number is even and the latitude
\* range when it is odd, across the symbol boundaries.
C12_AxisAlternation ==
    /\ \A m \in DOMAIN enc_trace :
           EncBitStep(enc_trace, m) =>
               AxisOfBit(5 * enc_trace[m].i + enc_trace[m].j,
                         enc_trace[m], enc_trace[m + 1])
    /\ \A m \in DOMAIN dec_trace :
           DecBitStep(dec_trace, m) =>
               AxisOfBit(5 * dec_trace[m].k + dec_trace[m].bs,
                         dec_trace[m], dec_trace[m + 1])

\* neighbor decoded a hash and encoded its neighbour, and in both the first
\* bit of the second symbol moved a bound of the latitude.
C12_Witness ==
    /\ call.op = "neighbor"
    /\ ret.ok
    /\ \E m \in DOMAIN enc_trace :
           /\ EncBitStep(enc_trace, m)
           /\ enc_trace[m].i = 1 /\ enc_trace[m].j = 0
           /\ \/ enc_trace[m + 1].min_lat # enc_trace[m].min_lat
              \/ enc_trace[m + 1].max_lat # enc_trace[m].max_lat
    /\ \E m \in DOMAIN dec_trace :
           /\ DecBitStep(dec_trace, m)
           /\ dec_trace[m].k = 1 /\ dec_trace[m].bs = 0
           /\ \/ dec_trace[m + 1].min_lat # dec_trace[m].min_lat
              \/ dec_trace[m + 1].max_lat # dec_trace[m].max_lat

\* The bounds of the locals st are the full ranges.
FullRange(st) ==
    /\ st.min_lon = from_num(-180) /\ st.max_lon = from_num(180)
    /\ st.min_lat = from_num(-90) /\ st.max_lat = from_num(90)

\* min <= max on both axes.
Ordered(st) == st.min_lon <= st.max_lon /\ st.min_lat <= st.max_lat

\* The rectangle of the locals b lies in the rectangle of the locals a.
Contained(b, a) ==
    /\ a.min_lon <= b.min_lon /\ b.max_lon <= a.max_lon
    /\ a.min_lat <= b.min_lat /\ b.max_lat <= a.max_lat

\* The coordinate lies in the rectangle of the locals st, bounds included.
Holds(st, lat, lon) ==
    /\ st.min_lon <= lon /\ lon <= st.max_lon
    /\ st.min_lat <= lat /\ lat <= st.max_lat

\* The point p lies in every rectangle of the states tr.
HoldsThroughout(tr, p) == \A m \in DOMAIN tr : Holds(tr[m], p.lat, p.lon)

\* The Rectangle inner lies in the Rectangle outer.
RectangleIn(inner, outer) ==
    /\ outer.min.lon <= inner.min.lon /\ inner.max.lon <= outer.max.lon
    /\ outer.min.lat <= inner.min.lat /\ inner.max.lat <= outer.max.lat

\* C13 (nested shrinking rectangle): in the encoder's and the decoder's
\* loops the bounds start at lon in [-180, 180], lat in [-90, 90]; they
\* always satisfy min <= max on both axes; every bit step sets one bound of
\* one axis to the midpoint of that axis and leaves the other three, and
\* its rectangle lies in the one before the step.  The bounding box of a
\* hash therefore lies in the bounding box of each of its prefixes, and
\* the coordinate being encoded lies in every rectangle of the encoder.
C13_NestedRectangle ==
    /\ \A m \in DOMAIN enc_trace :
           /\ (enc_trace[m].i = 0 /\ enc_trace[m].j = 0) => FullRange(enc_trace[m])
           /\ Ordered(enc_trace[m])
           /\ EncBitStep(enc_trace, m) =>
                  /\ \/ LonBisected(enc_trace[m], enc_trace[m + 1])
                     \/ LatBisected(enc_trace[m], enc_trace[m + 1])
                  /\ Contained(enc_trace[m + 1], enc_trace[m])
    /\ \A m \in DOMAIN dec_trace :
           /\ (dec_trace[m].k = 0 /\ dec_trace[m].bs = 0) => FullRange(dec_trace[m])
           /\ Ordered(dec_trace[m])
           /\ DecBitStep(dec_trace, m) =>
                  /\ \/ LonBisected(dec_trace[m], dec_trace[m + 1])
                     \/ LatBisected(dec_trace[m], dec_trace[m + 1])
                  /\ Contained(dec_trace[m + 1], dec_trace[m])
    /\ call.op = "try_from_params" => HoldsThroughout(enc_trace, call)
    /\ (call.op = "neighbor" /\ AllInAlphabet(self)) =>
           HoldsThroughout(enc_trace,
                           Shifted(try_as_coordinates(self).val, call.direction))
    /\ (call.op = "try_as_coordinates" /\ ret.ok) =>
           \A n \in 0..Len(self) :
               RectangleIn(decode_bbox(self).val,
                           decode_bbox(SubSeq(self, 1, n)).val)

\* neighbor decoded a hash of the longest length of Lens and encoded its
\* neighbour: both loops ran to their last bit, on rectangles smaller than
\* the full ranges on both axes.
C13_Witness ==
    /\ call.op = "neighbor"
    /\ Len(self) = MaxLen
    /\ ret.ok
    /\ \E m \in DOMAIN enc_trace :
           /\ EncBitStep(enc_trace, m)
           /\ enc_trace[m].i = MaxLen - 1 /\ enc_trace[m].j = 4
           /\ enc_trace[m + 1].min_lon > from_num(-180)
           /\ enc_trace[m + 1].max_lat < from_num(90)
    /\ \E m \in DOMAIN dec_trace :
           /\ DecBitStep(dec_trace, m)
           /\ dec_trace[m].k = MaxLen - 1 /\ dec_trace[m].bs = 4
           /\ dec_trace[m + 1].min_lon > from_num(-180)
           /\ dec_trace[m + 1].max_lat < from_num(90)

====
